---- MODULE Spec2Model ----
(***************************************************************************)
(* Model of calculate_arbitrage_opportunities (src/arbitrage.py).          *)
(*                                                                         *)
(* Floats are modelled in fixed point.  Spreads, sub-scores, scores,       *)
(* volatility and min_spread are integers counting 1/SCALE of their unit   *)
(* (0.6 % is 600, a score of 23.6 is 23600).  Net profits count            *)
(* 1/PROFIT_SCALE of a dollar, so that the epsilon 0.00001 is 10.  Prices  *)
(* and volume_diff are whole numbers.  A division rounds down.  NaN is a   *)
(* reserved value that the arithmetic operators propagate and every        *)
(* comparison rejects, as IEEE comparisons do.                             *)
(***************************************************************************)
EXTENDS Integers, Sequences, FiniteSets, TLC

VARIABLES prices_df, min_spread, row_pos, opp_pos, opportunities,
          scan_origin, fee_calls, status, error, result

vars == <<prices_df, min_spread, row_pos, opp_pos, opportunities,
          scan_origin, fee_calls, status, error, result>>

\* ------------------------------------------------------------------ bounds
MaxRows == 2

\* --------------------------------------------------------------- constants
SCALE == 1000
PROFIT_SCALE == 1000000
NaN == 0 - 2000000000

\* net_profit > 0.00001
PROFIT_EPSILON == 10

\* ------------------------------------------------------- float arithmetic
IsNa(x) == x = NaN

Quot(a, b) == IF b > 0 THEN a \div b ELSE (0 - a) \div (0 - b)

\* Python's min(a, b): b when b < a, else a (so min(100, nan) is 100)
PyMin(a, b) == IF (~IsNa(a)) /\ (~IsNa(b)) /\ b < a THEN b ELSE a

\* x < y on floats: False as soon as one side is NaN
FloatLess(x, y) == (~IsNa(x)) /\ (~IsNa(y)) /\ x < y

FloatGreater(x, y) == (~IsNa(x)) /\ (~IsNa(y)) /\ x > y

\* ------------------------------------------------------------------ inputs
\* rows of the snapshot: the columns calculate_arbitrage_opportunities reads
MkRow(c, pa, pb, vd, vol) ==
    [coin |-> c, binance_price |-> pa, kraken_price |-> pb,
     volume_diff |-> vd, volatility |-> vol]

Rows ==
    { MkRow("BTC", 50000, 50300, 20000, 1000),
      MkRow("ETH", 50300, 50000, 20000, 1000),
      MkRow("SOL", 100, 110, 1500000, 7000),
      MkRow("XRP", 100, 100, 20000, 1000),
      MkRow("ADA", NaN, 100, 20000, 1000),
      MkRow("DOT", 100, NaN, 20000, 1000),
      MkRow("LINK", 0, 100, 20000, 1000),
      MkRow("MATIC", 100, 0, 20000, 1000),
      MkRow("AVAX", 0 - 100, 0 - 50, 20000, 1000),
      MkRow("UNI", 100, 101, 0, 0) }

Snapshots == UNION { [1..n -> Rows] : n \in 0..MaxRows }

\* min_spread in percent: -1.0, 0.1 (the default), 1.0
MinSpreads == { 0 - 1000, 100, 1000 }

\* values the fee model can return for one unit, in 1/PROFIT_SCALE dollars
NetProfits == { 0 - 5000000, 0, 10, 150000000 }

\* ------------------------------------------------- the scan's pure helpers
\* variant: only the first price column is tested
HasMissingPrice_BinanceOnly(row) == IsNa(row.binance_price)

\* line 21: pd.isna(row['binance_price']) or pd.isna(row['kraken_price'])
HasMissingPrice(row) == IsNa(row.binance_price) \/ IsNa(row.kraken_price)

\* lines 29-30: a float division by 0.0 raises ZeroDivisionError
DividesByZero(row) == row.binance_price = 0 \/ row.kraken_price = 0

\* variant: the absolute spread, as exchanges.py computes its own column
Spread_Absolute(buy_price, sell_price) ==
    IF IsNa(buy_price) \/ IsNa(sell_price)
    THEN NaN
    ELSE Quot((IF sell_price >= buy_price THEN sell_price - buy_price
                                         ELSE buy_price - sell_price) * SCALE,
              buy_price) * 100

\* lines 29-30: ((sell - buy) / buy) * 100
Spread(buy_price, sell_price) ==
    IF IsNa(buy_price) \/ IsNa(sell_price)
    THEN NaN
    ELSE Quot((sell_price - buy_price) * SCALE, buy_price) * 100

\* lines 33-48: opportunities_to_check, in list order
OpportunitiesToCheck(row) ==
    << [spread |-> Spread(row.binance_price, row.kraken_price),
        buy_exchange |-> "Binance", sell_exchange |-> "Kraken",
        buy_price |-> row.binance_price, sell_price |-> row.kraken_price],
       [spread |-> Spread(row.kraken_price, row.binance_price),
        buy_exchange |-> "Kraken", sell_exchange |-> "Binance",
        buy_price |-> row.kraken_price, sell_price |-> row.binance_price] >>

\* line 52: opp['spread'] < min_spread
SpreadTooLow(spread, threshold) == FloatLess(spread, threshold)

\* variant: any non-negative profit passes
IsProfitable_NonNegative(net_profit) == FloatGreater(net_profit, 0 - 1)

\* line 65: net_profit > 0.00001
IsProfitable(net_profit) == FloatGreater(net_profit, PROFIT_EPSILON)

\* line 67: abs(1.0 / net_profit) if net_profit > 0 else float('inf'),
\* in 1/SCALE units; the infinity is written -1
MinVolumeForProfit(net_profit) ==
    IF net_profit > 0
    THEN Quot(SCALE * PROFIT_SCALE, net_profit)
    ELSE 0 - 1

\* line 70: min(100, row['volume_diff'] / 10000)
VolumeScore(volume_diff) ==
    PyMin(100 * SCALE,
          IF IsNa(volume_diff) THEN NaN ELSE Quot(volume_diff * SCALE, 10000))

\* variant: the spread sub-score is not clamped
SpreadScore_Unclamped(spread) == IF IsNa(spread) THEN NaN ELSE spread * 20

\* line 71: min(100, opp['spread'] * 20)
SpreadScore(spread) ==
    PyMin(100 * SCALE, IF IsNa(spread) THEN NaN ELSE spread * 20)

\* line 72: min(50, row['volatility'] * 10)
VolatilityPenalty(volatility) ==
    PyMin(50 * SCALE, IF IsNa(volatility) THEN NaN ELSE volatility * 10)

\* variant: weights 0.5 / 0.3 / 0.2
OpportunityScore_WrongWeights(spread_score, volume_score, volatility_penalty) ==
    Quot(spread_score * 5, 10) + Quot(volume_score * 3, 10)
        + Quot((100 * SCALE - volatility_penalty) * 2, 10)

\* lines 74-78: 0.4 * spread + 0.4 * volume + 0.2 * (100 - penalty)
OpportunityScore(spread_score, volume_score, volatility_penalty) ==
    Quot(spread_score * 4, 10) + Quot(volume_score * 4, 10)
        + Quot((100 * SCALE - volatility_penalty) * 2, 10)

\* lines 81-94: the record appended for a retained candidate
MkOpportunity(row, opp, net_profit) ==
    [coin |-> row.coin,
     buy_exchange |-> opp.buy_exchange,
     sell_exchange |-> opp.sell_exchange,
     buy_price |-> opp.buy_price,
     sell_price |-> opp.sell_price,
     spread_percent |-> opp.spread,
     net_profit_usd |-> net_profit,
     volume_diff |-> row.volume_diff,
     volatility |-> row.volatility,
     min_volume_required |-> MinVolumeForProfit(net_profit),
     opportunity_score |->
         OpportunityScore(SpreadScore(opp.spread),
                          VolumeScore(row.volume_diff),
                          VolatilityPenalty(row.volatility))]

\* variant: ascending=True
SortValues_Ascending(opps) ==
    { perm \in Permutations(1..Len(opps)) :
        \A p, q \in 1..Len(opps) :
            p < q => opps[perm[p]].opportunity_score
                        <= opps[perm[q]].opportunity_score }

\* variant: the frame is returned without being sorted
SortValues_Unsorted(opps) == { [p \in 1..Len(opps) |-> p] }

\* line 101: sort_values('opportunity_score', ascending=False).  The result is
\* the frame's index after the sort: result[p] is the position in
\* `opportunities` of the record shown at place p.  pandas sorts with
\* kind='quicksort', which is not stable: every descending arrangement is a
\* possible outcome.
SortValues(opps) ==
    { perm \in Permutations(1..Len(opps)) :
        \A p, q \in 1..Len(opps) :
            p < q => opps[perm[p]].opportunity_score
                        >= opps[perm[q]].opportunity_score }

\* ------------------------------------------------------------ the program
Init ==
    /\ prices_df \in Snapshots
    /\ min_spread \in MinSpreads
    /\ row_pos = 1
    /\ opp_pos = 0
    /\ opportunities = << >>
    /\ scan_origin = << >>
    /\ fee_calls = {}
    /\ status = "scanning"
    /\ error = "none"
    /\ result = << >>

AtRow == status = "scanning" /\ row_pos <= Len(prices_df) /\ opp_pos = 0

AtCandidate == status = "scanning" /\ row_pos <= Len(prices_df) /\ opp_pos \in {1, 2}

CurrentRow == prices_df[row_pos]

CurrentOpp == OpportunitiesToCheck(CurrentRow)[opp_pos]

\* the inner loop moves to the next candidate, or the outer loop to the next row
NextCandidate ==
    IF opp_pos = 1
    THEN /\ opp_pos' = 2
         /\ row_pos' = row_pos
    ELSE /\ opp_pos' = 0
         /\ row_pos' = row_pos + 1

\* lines 19-22: a row with a missing price is skipped
SkipMissingPrice ==
    /\ AtRow
    /\ HasMissingPrice(CurrentRow)
    /\ row_pos' = row_pos + 1
    /\ UNCHANGED <<prices_df, min_spread, opp_pos, opportunities, scan_origin, fee_calls,
                   status, error, result>>

\* lines 25-30: a zero price makes one of the two divisions raise; nothing
\* in the function catches it
SpreadDivisionError ==
    /\ AtRow
    /\ ~HasMissingPrice(CurrentRow)
    /\ DividesByZero(CurrentRow)
    /\ status' = "raised"
    /\ error' = "ZeroDivisionError"
    /\ UNCHANGED <<prices_df, min_spread, row_pos, opp_pos, opportunities,
                   scan_origin, fee_calls, result>>

\* lines 25-48: both spreads computed, the inner loop starts
ComputeSpreads ==
    /\ AtRow
    /\ ~HasMissingPrice(CurrentRow)
    /\ ~DividesByZero(CurrentRow)
    /\ opp_pos' = 1
    /\ UNCHANGED <<prices_df, min_spread, row_pos, opportunities, scan_origin, fee_calls,
                   status, error, result>>

\* lines 52-53
SkipLowSpread ==
    /\ AtCandidate
    /\ SpreadTooLow(CurrentOpp.spread, min_spread)
    /\ NextCandidate
    /\ UNCHANGED <<prices_df, min_spread, opportunities, scan_origin, fee_calls, status,
                   error, result>>

FeeCall == [row |-> row_pos, buy_exchange |-> CurrentOpp.buy_exchange,
            sell_exchange |-> CurrentOpp.sell_exchange]

\* lines 56-62: calculate_net_profit raises; the call is not in a try block
FeeModelRaises ==
    /\ AtCandidate
    /\ ~SpreadTooLow(CurrentOpp.spread, min_spread)
    /\ fee_calls' = fee_calls \cup {FeeCall}
    /\ status' = "raised"
    /\ error' = "FeeModelError"
    /\ UNCHANGED <<prices_df, min_spread, row_pos, opp_pos, opportunities,
                   scan_origin, result>>

\* lines 56-65: the fee model answers, the answer fails the profit test
DropUnprofitable ==
    /\ AtCandidate
    /\ ~SpreadTooLow(CurrentOpp.spread, min_spread)
    /\ \E net_profit \in NetProfits : ~IsProfitable(net_profit)
    /\ fee_calls' = fee_calls \cup {FeeCall}
    /\ NextCandidate
    /\ UNCHANGED <<prices_df, min_spread, opportunities, scan_origin, status,
                   error, result>>

\* lines 56-94: the fee model answers, the candidate is scored and appended
AppendOpportunity ==
    /\ AtCandidate
    /\ ~SpreadTooLow(CurrentOpp.spread, min_spread)
    /\ \E net_profit \in NetProfits :
          /\ IsProfitable(net_profit)
          /\ opportunities' =
                Append(opportunities,
                       MkOpportunity(CurrentRow, CurrentOpp, net_profit))
    /\ scan_origin' = Append(scan_origin, [row |-> row_pos, opp |-> opp_pos])
    /\ fee_calls' = fee_calls \cup {FeeCall}
    /\ NextCandidate
    /\ UNCHANGED <<prices_df, min_spread, status, error, result>>

ScanDone == status = "scanning" /\ row_pos > Len(prices_df)

\* lines 96-97
ReturnEmpty ==
    /\ ScanDone
    /\ opportunities = << >>
    /\ result' = << >>
    /\ status' = "returned"
    /\ UNCHANGED <<prices_df, min_spread, row_pos, opp_pos, opportunities,
                   scan_origin, fee_calls, error>>

\* lines 99-101
ReturnSorted ==
    /\ ScanDone
    /\ opportunities # << >>
    /\ result' \in SortValues(opportunities)
    /\ status' = "returned"
    /\ UNCHANGED <<prices_df, min_spread, row_pos, opp_pos, opportunities,
                   scan_origin, fee_calls, error>>

Next ==
    \/ SkipMissingPrice
    \/ SpreadDivisionError
    \/ ComputeSpreads
    \/ SkipLowSpread
    \/ FeeModelRaises
    \/ DropUnprofitable
    \/ AppendOpportunity
    \/ ReturnEmpty
    \/ ReturnSorted

Spec == Init /\ [][Next]_vars

TypeOK ==
    /\ status \in {"scanning", "raised", "returned"}
    /\ error \in {"none", "ZeroDivisionError", "FeeModelError"}
    /\ row_pos \in 1..(Len(prices_df) + 1)
    /\ opp_pos \in 0..2

\* ------------------------------------------------------------- properties
Returned == status = "returned"

\* the record shown at place p of the returned frame
Shown(p) == opportunities[result[p]]

\* the snapshot row a retained record was made from
OriginRow(n) == prices_df[scan_origin[n].row]

\* a row one of whose two prices is NaN
PriceMissing(row) == row.binance_price = NaN \/ row.kraken_price = NaN

PositivePrices(row) ==
    /\ ~PriceMissing(row)
    /\ row.binance_price > 0
    /\ row.kraken_price > 0

Smaller(a, b) == IF a < b THEN a ELSE b

\* C1: every retained record, and so every record of the returned frame, has a
\* net profit per unit strictly greater than the epsilon 0.00001; a candidate
\* whose net profit is at most the epsilon is never emitted.
C1_NetProfitAboveEpsilon ==
    /\ \A n \in 1..Len(opportunities) :
          opportunities[n].net_profit_usd > PROFIT_EPSILON
    /\ Returned =>
          \A p \in 1..Len(result) : Shown(p).net_profit_usd > PROFIT_EPSILON

\* C1 witness: a frame was returned with a record in it, after at least one
\* candidate that reached the fee model was dropped.
C1_Witness ==
    /\ Returned
    /\ Len(result) > 0
    /\ Cardinality(fee_calls) > Len(opportunities)

\* C2: a returned record whose spread_percent, volume_diff and volatility are
\* non-negative has an opportunity_score in [0, 100].
C2_ScoreInRange ==
    Returned =>
        \A p \in 1..Len(result) :
            ( /\ Shown(p).spread_percent >= 0
              /\ Shown(p).volume_diff >= 0
              /\ Shown(p).volatility >= 0 )
            => ( /\ Shown(p).opportunity_score >= 0
                 /\ Shown(p).opportunity_score <= 100 * SCALE )

\* C2 witness: a returned record whose three sub-scores all saturate
\* (spread 10 %, volume_diff 1 500 000, volatility 7.0), scoring 90.
C2_Witness ==
    /\ Returned
    /\ \E p \in 1..Len(result) :
          /\ Shown(p).spread_percent > 5 * SCALE
          /\ Shown(p).volume_diff > 1000000
          /\ Shown(p).volatility > 5 * SCALE
          /\ Shown(p).opportunity_score = 90 * SCALE

\* C3: the returned frame is ordered by opportunity_score descending and holds
\* each retained record exactly once.
C3_SortedDescending ==
    Returned =>
        /\ Len(result) = Len(opportunities)
        /\ \A n \in 1..Len(opportunities) :
              Cardinality({ p \in 1..Len(result) : result[p] = n }) = 1
        /\ \A p, q \in 1..Len(result) :
              p < q => Shown(p).opportunity_score >= Shown(q).opportunity_score

\* C3 witness: a returned frame whose best record was not the first one found.
C3_Witness ==
    /\ Returned
    /\ Len(result) >= 2
    /\ result[1] # 1
    /\ Shown(1).opportunity_score > Shown(2).opportunity_score

\* C4: every retained record's opportunity_score is
\* 0.4 * min(100, spread_percent * 20) + 0.4 * min(100, volume_diff / 10000)
\* + 0.2 * (100 - min(50, volatility * 10)); the row 50000 / 50300 with
\* volume_diff 20000 and volatility 1.0 scores 23.6 in direction A->B.
C4_ScoreFormula ==
    \A n \in 1..Len(opportunities) :
        LET r == opportunities[n]
            spread_score == Smaller(100 * SCALE, r.spread_percent * 20)
            volume_score == Smaller(100 * SCALE, (r.volume_diff * SCALE) \div 10000)
            volatility_penalty == Smaller(50 * SCALE, r.volatility * 10)
        IN  /\ r.opportunity_score * 10 =
                  spread_score * 4 + volume_score * 4
                      + (100 * SCALE - volatility_penalty) * 2
            /\ ( /\ r.buy_exchange = "Binance"
                 /\ r.buy_price = 50000
                 /\ r.sell_price = 50300
                 /\ r.volume_diff = 20000
                 /\ r.volatility = SCALE )
               => r.opportunity_score = 23600

\* C4 witness: the 50000 / 50300 row was retained in direction A->B and returned.
C4_Witness ==
    /\ Returned
    /\ \E p \in 1..Len(result) :
          /\ Shown(p).buy_exchange = "Binance"
          /\ Shown(p).buy_price = 50000
          /\ Shown(p).sell_price = 50300
          /\ Shown(p).spread_percent = 600

\* C5: a row with a zero or negative price is dropped silently: the scan never
\* divides by a zero price, raises nothing for the row, and emits no record
\* for it.
C5_NonPositivePriceDropped ==
    /\ error # "ZeroDivisionError"
    /\ \A n \in 1..Len(opportunities) : PositivePrices(OriginRow(n))

\* C6: a failure of the fee model for one candidate skips that candidate only;
\* the call is never aborted by it.
C6_FeeFailureSkipsCandidate == error # "FeeModelError"

\* C7: with a negative min_spread the call fails fast: it never returns a frame.
C7_NegativeMinSpreadRejected == min_spread < 0 => ~Returned

\* C8: a row with a missing price yields no record in either direction, never
\* reaches the fee model, and the scan goes on with the next row.
C8_MissingPriceRowSkipped ==
    [][ /\ \A n \in 1..Len(opportunities') : ~PriceMissing(OriginRow(n)')
        /\ \A c \in fee_calls' : ~PriceMissing(prices_df'[c.row])
        /\ (AtRow /\ PriceMissing(CurrentRow))
             => /\ status' = "scanning"
                /\ row_pos' = row_pos + 1
                /\ opp_pos' = 0
                /\ opportunities' = opportunities
                /\ fee_calls' = fee_calls ]_vars

\* C8 witness: a frame was returned that holds a record of a row scanned after
\* a row with a missing price.
C8_Witness ==
    /\ Returned
    /\ \E n \in 1..Len(opportunities) :
          \E i \in 1..Len(prices_df) :
              /\ i < scan_origin[n].row
              /\ PriceMissing(prices_df[i])

\* C9 as stated: records of equal opportunity_score are returned in scan order.
C9_StableSort ==
    Returned =>
        \A p, q \in 1..Len(result) :
            (p < q /\ Shown(p).opportunity_score = Shown(q).opportunity_score)
                => result[p] < result[q]

\* C9 as amended: the sort fixes the relative place of two records only when
\* their scores differ: the one with the strictly higher score comes first,
\* whatever their scan order; records of equal score may come in either order.
C9_OrderFixedByScoreOnly ==
    Returned =>
        \A p, q \in 1..Len(result) :
            Shown(p).opportunity_score > Shown(q).opportunity_score => p < q

\* C9 witness: a returned frame with two records of equal score, the one found
\* later shown first.
C9_Witness ==
    /\ Returned
    /\ \E p, q \in 1..Len(result) :
          /\ p < q
          /\ Shown(p).opportunity_score = Shown(q).opportunity_score
          /\ result[p] > result[q]

\* C10: with min_spread > 0, a row with two strictly positive prices yields at
\* most one record, whatever the fee model returns, and that record sells
\* above its buy price.
C10_OneDirectionPerRow ==
    min_spread > 0 =>
        \A n \in 1..Len(opportunities) :
            PositivePrices(OriginRow(n)) =>
                /\ opportunities[n].sell_price > opportunities[n].buy_price
                /\ \A m \in 1..Len(opportunities) :
                      scan_origin[m].row = scan_origin[n].row => m = n

\* C10 witness: with min_spread > 0, a row of positive prices had its second
\* direction retained, after its first was rejected, and the frame returned.
C10_Witness ==
    /\ Returned
    /\ min_spread > 0
    /\ \E n \in 1..Len(opportunities) :
          /\ PositivePrices(OriginRow(n))
          /\ scan_origin[n].opp = 2

====
